---- MODULE Spec2Model ----
(***************************************************************************)
(* Model of the prompt expansion / completion / edit synthesis pipeline    *)
(* (callExpander, expandTemplate, runTemplate).                            *)
(*                                                                         *)
(* Strings are sequences of tokens: a token is an atomic piece of text     *)
(* (a line break, a backquote, a word, a fixed phrase of the trace), and    *)
(* concatenation of strings is concatenation of sequences.  A backquote   *)
(* of the source text is written as an apostrophe in the tokens.           *)
(***************************************************************************)
EXTENDS Integers, Sequences, FiniteSets, TLC

(***************************************************************************)
(* Bounds of the model.                                                    *)
(***************************************************************************)
\* longest template script, in operations
MaxScriptLen == 2
\* largest number of named blocks in one completion
MaxBlocks == 2
\* number of times the caller runs the template against the same inputs
MaxRuns == 2

(***************************************************************************)
(* String helpers (JavaScript string methods on token sequences).          *)
(***************************************************************************)
NL == "\n"
BT == "'"
UNDEFINED == "undefined"

Last(s) == s[Len(s)]

Slice(s, from) == SubSeq(s, from + 1, Len(s))

RECURSIVE StripLeading(_, _)
StripLeading(s, toks) ==
    IF s # <<>> /\ Head(s) \in toks THEN StripLeading(Tail(s), toks) ELSE s

RECURSIVE StripTrailing(_, _)
StripTrailing(s, toks) ==
    IF s # <<>> /\ Last(s) \in toks
    THEN StripTrailing(SubSeq(s, 1, Len(s) - 1), toks)
    ELSE s

\* s.replace(/^\n*/, "").replace(/\n*$/, "")
trimNewlines(s) == StripTrailing(StripLeading(s, {NL}), {NL})

WhiteSpace == {NL, " "}

\* s.trim()
Trim(s) == StripTrailing(StripLeading(s, WhiteSpace), WhiteSpace)

StartsWithAt(s, sub, i) ==
    /\ i + Len(sub) <= Len(s)
    /\ SubSeq(s, i + 1, i + Len(sub)) = sub

\* s.indexOf(sub): 0-based position of the first occurrence, -1 when absent
indexOf(s, sub) ==
    LET hits == {i \in 0..Len(s) : StartsWithAt(s, sub, i)}
    IN  IF hits = {} THEN -1 ELSE CHOOSE i \in hits : \A j \in hits : i <= j

includes(s, sub) == indexOf(s, sub) >= 0

\* s.replace(pat, rep) with a string pattern: the first occurrence only
replace(s, pat, rep) ==
    LET i == indexOf(s, pat)
    IN  IF i < 0 THEN s
        ELSE SubSeq(s, 1, i) \o rep \o Slice(s, i + Len(pat))

\* s.replace(/\n[^]*/, ""): everything from the first line break on is cut
UpToLineBreak(s) ==
    LET i == indexOf(s, <<NL>>)
    IN  IF i < 0 THEN s ELSE SubSeq(s, 1, i)

fence == "'''''''''''''''"

fenceMD(t, contentType) ==
    <<NL, fence, contentType, NL>> \o trimNewlines(t) \o <<NL, fence, NL>>

\* the numbered listing of a script source; the source text is one token
numberedFenceMD(src, contentType) ==
    fenceMD(<<"  1: ", src>>, contentType)

(***************************************************************************)
(* Template scripts.  A script is a sequence of operations; what a script  *)
(* can do to the expander is: emit a text segment through text(body), the  *)
(* body being built from literals and reads of env.<name>; write a log     *)
(* line; throw a value.                                                    *)
(***************************************************************************)
Lit(t) == [k |-> "lit", v |-> t]
Env(n) == [k |-> "env", v |-> n]

TextOp(body, loc) == [op |-> "text", body |-> body, kind |-> "", loc |-> loc]
LogOp(body)       == [op |-> "log", body |-> body, kind |-> "", loc |-> FALSE]
ThrowOp(kind, body, loc) == [op |-> "throw", body |-> body, kind |-> kind, loc |-> loc]

\* the error marker bound to env.error by the static variables
ErrorMarker == <<"@@ERROR@@">>

\* the getter with the bug of handing the undefined value on to the script
ProxyGetUndefined(vars, prop) ==
    IF prop \in DOMAIN vars
    THEN [value |-> vars[prop], errors |-> <<>>]
    ELSE [value |-> <<UNDEFINED>>, errors |-> <<>>]

\* env: the read interceptor of callExpander
ProxyGet(vars, prop) ==
    IF prop \in DOMAIN vars
    THEN [value |-> vars[prop], errors |-> <<>>]
    ELSE [value |-> <<>>,
          errors |-> <<"-  'env.", prop, "' not defined", NL>>]

\* evaluation of the argument of text() or console.log(): the literals and
\* the reads of env.<name>, left to right
RECURSIVE EvalBody(_, _)
EvalBody(body, vars) ==
    IF body = <<>> THEN [value |-> <<>>, errors |-> <<>>]
    ELSE LET h == Head(body)
             r == IF h.k = "env" THEN ProxyGet(vars, h.v)
                  ELSE [value |-> <<h.v>>, errors |-> <<>>]
             t == EvalBody(Tail(body), vars)
         IN  [value |-> r.value \o t.value, errors |-> r.errors \o t.errors]

\* the catch block of callExpander for a thrown value e:
\* e.stack of null or undefined cannot be read, and the TypeError leaves
\* callExpander; a thrown string has neither name nor message nor stack
StackInfo(loc) == IF loc THEN <<" at prompt line L, column C">> ELSE <<>>

CatchLine(kind, msg, loc) ==
    IF kind = "Error" THEN <<"-  ", "Error", ": ">> \o msg \o StackInfo(loc) \o <<NL>>
    ELSE <<"-  ", UNDEFINED, ": ", UNDEFINED, NL>>

\* the text callback without the check for the error marker
TextCallbackNoMarker(st, body, loc, vars) ==
    LET ev == EvalBody(body, vars)
    IN  [st EXCEPT !.errors = @ \o ev.errors,
                   !.text = @ \o trimNewlines(ev.value) \o <<NL, NL>>]

\* text: (body) => { ... } after the evaluation of its argument
TextCallback(st, body, loc, vars) ==
    LET ev  == EvalBody(body, vars)
        b   == ev.value
        st1 == [st EXCEPT !.errors = @ \o ev.errors,
                          !.text = @ \o trimNewlines(b) \o <<NL, NL>>]
        idx == indexOf(b, vars["error"])
        msg == UpToLineBreak(Slice(b, idx + Len(vars["error"])))
    IN  IF idx >= 0
        THEN [st1 EXCEPT !.success = FALSE,
                         !.halted = TRUE,
                         !.errors = @ \o CatchLine("Error", msg, loc)]
        ELSE st1

\* catch (e) { ... } for a value thrown by the script itself
CatchThrown(st, kind, msg, loc) ==
    IF kind = "null"
    THEN [st EXCEPT !.success = FALSE, !.halted = TRUE, !.thrown = "TypeError"]
    ELSE [st EXCEPT !.success = FALSE, !.halted = TRUE,
                    !.errors = @ \o CatchLine(kind, msg, loc)]

ExpanderStep(st, o, vars) ==
    IF st.halted THEN st
    ELSE IF o.op = "text" THEN TextCallback(st, o.body, o.loc, vars)
    ELSE IF o.op = "log"
         THEN LET ev == EvalBody(o.body, vars)
              IN  [st EXCEPT !.errors = @ \o ev.errors,
                             !.logs = @ \o ev.value \o <<NL>>]
    ELSE LET ev == EvalBody(o.body, vars)
         IN  CatchThrown([st EXCEPT !.errors = @ \o ev.errors],
                         o.kind, ev.value, o.loc)

RECURSIVE RunScript(_, _, _)
RunScript(st, script, vars) ==
    IF script = <<>> THEN st
    ELSE RunScript(ExpanderStep(st, Head(script), vars), Tail(script), vars)

\* callExpander(r, vars): r.jsSource is the script
callExpander(script, vars) ==
    RunScript([text |-> <<>>, errors |-> <<>>, success |-> TRUE,
               logs |-> <<>>, halted |-> FALSE, thrown |-> ""],
              script, vars)

(***************************************************************************)
(* expandTemplate.                                                         *)
(***************************************************************************)
defaultModel == "gpt-4"
defaultTemperature == "0.2"
defaultMaxTokens == "800"

\* a || b: a falsy value (0, the empty string) is taken for a missing one
CoalesceFalsy(a, b) == IF a \in {UNDEFINED, "", "0"} THEN b ELSE a

\* a ?? b
Coalesce(a, b) == IF a # UNDEFINED THEN a ELSE b

\* x || "" for a model name or a number
OrEmpty(x) == IF x \in {UNDEFINED, "", "0"} THEN "" ELSE x

\* the keys of the binding table, in the order of Object.entries
VarKeys(vars) == <<"error", "file">>

\* varName[v]: the first key bound to the value v
varName(vars, v) ==
    LET ks == VarKeys(vars)
        is == {i \in 1..Len(ks) : vars[ks[i]] = v}
    IN  ks[CHOOSE i \in is : \A j \in is : i <= j]

isComplex(vars, k) ==
    LET v == vars[k]
    IN  IF varName(vars, v) # k THEN FALSE
        ELSE \/ Len(v) > 40
             \/ includes(Trim(v), <<NL>>)
             \/ includes(v, <<BT>>)

RECURSIVE TraceSimpleVars(_, _)
TraceSimpleVars(vars, ks) ==
    IF ks = <<>> THEN <<>>
    ELSE LET k == Head(ks)
             v == vars[k]
             line == IF isComplex(vars, k) THEN <<>>
                     ELSE IF varName(vars, v) # k
                          THEN <<"-   env.**", k, "**: same as **",
                                 varName(vars, v), "**", NL, NL>>
                          ELSE <<"-   env.**", k, "**: ", BT>> \o v \o <<BT, NL, NL>>
         IN  line \o TraceSimpleVars(vars, Tail(ks))

RECURSIVE TraceComplexVars(_, _)
TraceComplexVars(vars, ks) ==
    IF ks = <<>> THEN <<>>
    ELSE LET k == Head(ks)
             line == IF ~isComplex(vars, k) THEN <<>>
                     ELSE <<"-   env.**", k, "**">> \o fenceMD(vars[k], "") \o <<NL>>
         IN  line \o TraceComplexVars(vars, Tail(ks))

traceVars(vars) ==
    <<NL, NL, "## Variables", NL,
      "Variables are referenced through 'env.NAME' in prompts.", NL, NL>>
    \o TraceSimpleVars(vars, VarKeys(vars))
    \o TraceComplexVars(vars, VarKeys(vars))

\* categoryPrefix for a template without categories: the only prefix looked
\* up among the fragment's comment attributes is "@prompt"
categoryPrefix(template, attrs) ==
    IF "@prompt" \in DOMAIN attrs
    THEN [info |-> <<NL, "## Inline prompts", NL, "-   **", "@prompt", "**)", NL>>
                   \o trimNewlines(attrs["@prompt"]) \o <<NL, NL>>,
          text |-> attrs["@prompt"]]
    ELSE [info |-> <<>>, text |-> <<>>]

\* the trace of expandTemplate up to the system prompt section, the
\* @@errors@@ placeholder already replaced
MainTrace(template, cat, prompt, vars) ==
    LET t0 == <<NL, "# Prompt trace", NL, NL, "@@errors@@", NL, NL,
                "## Prompt template ", template.title, " (", template.id, ")", NL>>
              \o numberedFenceMD(template.src, "js") \o <<NL, NL>>
        t1 == t0 \o cat.info \o <<NL, "## console output", NL>>
        t2 == t1 \o (IF Len(prompt.logs) > 0 THEN fenceMD(prompt.logs, "markdown")
                     ELSE <<"> tip: use 'console.log()' from prompt.js files">>)
        t3 == t2 \o <<NL, "## Expanded prompt", NL>>
                 \o fenceMD(prompt.text, "markdown") \o traceVars(vars)
    IN  replace(t3, <<"@@errors@@">>, prompt.errors)

\* the declared list with the canonical entry put first when it is missing
SystemsOf(template) ==
    IF \E i \in 1..Len(template.system) : template.system[i] = "system"
    THEN template.system
    ELSE <<"system">> \o template.system

SystemSection(name, system, sysex) ==
    <<"###  template: ", name, NL>>
    \o (IF system.model \notin {UNDEFINED, ""}
        THEN <<"-  model: ", OrEmpty(system.model), NL>> ELSE <<>>)
    \o (IF system.temperature # UNDEFINED
        THEN <<"-  temperature: ", OrEmpty(system.temperature), NL>> ELSE <<>>)
    \o (IF system.maxTokens # UNDEFINED
        THEN <<"-  max tokens: ", OrEmpty(system.maxTokens), NL>> ELSE <<>>)
    \o numberedFenceMD(system.src, "js")
    \o <<"#### Expanded system prompt">> \o fenceMD(sysex, "markdown")

\* one iteration of the loop over the system templates
SystemStep(acc, systems, i, project, vars) ==
    LET declared == systems[i]
        found == declared \in DOMAIN project
        acc1 == IF ~found /\ declared # ""
                THEN [acc EXCEPT !.trace = @ \o <<NL, "** error: ", declared,
                                                  " not found", NL>>]
                ELSE acc
        name == IF found THEN declared ELSE "system"
    IN  IF ~found /\ i > 1 THEN acc1
        ELSE IF name \notin DOMAIN project
        THEN [acc1 EXCEPT !.thrown = "AssertionError"]
        ELSE LET system == project[name]
                 ex == callExpander(system.jsSource, vars)
             IN  IF ex.thrown # "" THEN [acc1 EXCEPT !.thrown = ex.thrown]
                 ELSE [acc1 EXCEPT
                         !.systemText = @ \o ex.text \o <<NL>>,
                         !.model = Coalesce(@, system.model),
                         !.temperature = Coalesce(@, system.temperature),
                         !.max_tokens = Coalesce(@, system.maxTokens),
                         !.trace = @ \o SystemSection(name, system, ex.text)]

RECURSIVE SystemLoop(_, _, _, _, _)
SystemLoop(acc, systems, i, project, vars) ==
    IF i > Len(systems) \/ acc.thrown # "" THEN acc
    ELSE SystemLoop(SystemStep(acc, systems, i, project, vars),
                    systems, i + 1, project, vars)

expandTemplate(template, attrs, vars, project, config) ==
    LET cat    == categoryPrefix(template, attrs)
        prompt == callExpander(template.jsSource, vars)
        acc0   == [systemText |-> <<>>,
                   model |-> template.model,
                   temperature |-> template.temperature,
                   max_tokens |-> template.maxTokens,
                   trace |-> MainTrace(template, cat, prompt, vars)
                             \o <<"## System prompt", NL>>,
                   thrown |-> ""]
        acc    == SystemLoop(acc0, SystemsOf(template), 1, project, vars)
    IN  IF prompt.thrown # ""
        THEN [expanded |-> <<>>, errors |-> <<>>, trace |-> <<>>, success |-> FALSE,
              model |-> UNDEFINED, temperature |-> UNDEFINED,
              max_tokens |-> UNDEFINED, systemText |-> <<>>,
              thrown |-> prompt.thrown]
        ELSE [expanded |-> cat.text \o <<NL>> \o prompt.text,
              errors |-> prompt.errors,
              trace |-> acc.trace,
              success |-> prompt.success,
              model |-> Coalesce(Coalesce(acc.model, config.model), defaultModel),
              temperature |-> Coalesce(acc.temperature, defaultTemperature),
              max_tokens |-> Coalesce(acc.max_tokens, defaultMaxTokens),
              systemText |-> acc.systemText,
              thrown |-> acc.thrown]

(***************************************************************************)
(* The inputs of a run.                                                    *)
(***************************************************************************)
\* the binding table built by fragmentVars: env.error is the error marker
Vars == [error |-> ErrorMarker, file |-> <<"frag.md">>]

HelloBody  == <<Lit("hello")>>
PaddedBody == <<Lit(NL), Lit("a"), Lit(NL)>>
UndefBody  == <<Lit("x"), Env("foo"), Lit("y")>>
BoundBody  == <<Lit("f:"), Env("file")>>
MarkerBody == <<Lit("pre"), Env("error"), Lit("boom"), Lit(NL), Lit("rest")>>

ScriptOps ==
    {TextOp(b, FALSE) : b \in {HelloBody, PaddedBody, UndefBody, BoundBody}}
    \cup {TextOp(MarkerBody, l) : l \in BOOLEAN}
    \cup {LogOp(<<Lit("dbg"), Env("bar")>>)}
    \cup {ThrowOp("Error", <<Lit("oops")>>, l) : l \in BOOLEAN}
    \cup {ThrowOp("string", <<Lit("oops")>>, FALSE),
          ThrowOp("null", <<>>, FALSE)}

Scripts == UNION {[1..n -> ScriptOps] : n \in 0..MaxScriptLen}

\* scripts of the system templates
SystemScripts ==
    {<<TextOp(<<Lit("You are concise.")>>, FALSE)>>,
     <<TextOp(<<Lit("sys"), Env("foo")>>, FALSE)>>,
     <<ThrowOp("Error", <<Lit("sysfail")>>, FALSE)>>,
     <<ThrowOp("null", <<>>, FALSE)>>}

\* main scripts used when the system templates or the completion vary
FewScripts ==
    {<<TextOp(HelloBody, FALSE)>>,
     <<TextOp(UndefBody, FALSE)>>,
     <<ThrowOp("Error", <<Lit("oops")>>, FALSE)>>}

SystemLists ==
    {<<>>, <<"system", "system.files">>, <<"system.files">>,
     <<"missing", "system">>, <<"system", "missing">>}

Template(script, system, model, temperature, maxTokens) ==
    [id |-> "main", title |-> "Main", src |-> "main.jsSource",
     jsSource |-> script, system |-> system,
     model |-> model, temperature |-> temperature, maxTokens |-> maxTokens]

SystemTemplate(id, script, model, temperature, maxTokens) ==
    [id |-> id, title |-> id, src |-> id, jsSource |-> script, system |-> <<>>,
     model |-> model, temperature |-> temperature, maxTokens |-> maxTokens]

\* the project's templates: the canonical "system" template is always there
Project(sysScript, filesScript) ==
    [n \in {"system", "system.files"} |->
        IF n = "system"
        THEN SystemTemplate(n, sysScript, UNDEFINED, UNDEFINED, UNDEFINED)
        ELSE SystemTemplate(n, filesScript, "gpt-3.5", "0", UNDEFINED)]

\* paths
Dir == "/proj/"
FragmentFile == <<Dir, "frag.md">>
PathA == <<Dir, "a.txt">>
PathB == <<Dir, "b.txt">>

ContentOne == <<"one">>
ContentTwo == <<"two", NL>>
FencedJs == <<BT, BT, BT, "js", NL, "console.log(1)", NL, BT, BT, BT>>

\* the states of the file system: the fragment's file exists, a.txt may
\* exist with one of two contents, b.txt does not exist
FileSystems ==
    {[p \in ({FragmentFile} \cup D) |-> IF p = PathA THEN a ELSE ContentOne] :
        D \in SUBSET {PathA}, a \in {ContentOne, ContentTwo}}

(***************************************************************************)
(* Completions.  extractFenced is the fenced-block parser: a completion is *)
(* given by its raw text and by the name -> text mapping the parser finds  *)
(* in it, in the order of Object.entries.                                  *)
(***************************************************************************)
FilePrefix == "File "

BlockNames ==
    {<<FilePrefix, "a.txt">>, <<FilePrefix, "./", "a.txt">>,
     <<FilePrefix, "b.txt">>, <<"SUMMARY">>, <<"Foo">>, <<"Bar">>}

BlockTexts == {ContentOne, FencedJs}

RawTexts == {<<"Sure.", NL>>, FencedJs}

Blocks == [name : BlockNames, val : BlockTexts]

BlockLists(k) ==
    {bs \in UNION {[1..n -> Blocks] : n \in 0..k} :
        \A i, j \in 1..Len(bs) : i # j => bs[i].name # bs[j].name}

Completions(k) == [text : RawTexts, vars : BlockLists(k)]

RECURSIVE renderFencedVariables(_)
renderFencedVariables(vs) ==
    IF vs = <<>> THEN <<>>
    ELSE <<"-   ">> \o Head(vs).name \o fenceMD(Head(vs).val, "")
         \o renderFencedVariables(Tail(vs))

(***************************************************************************)
(* Edit synthesis and the final text.                                      *)
(***************************************************************************)
\* name.slice(5).trim().replace(/^\.\//, "")
BlockFile(name) ==
    LET t == Trim(Tail(name))
    IN  IF t # <<>> /\ Head(t) = "./" THEN Tail(t) ELSE t

\* host.resolvePath(fragment.file.filename, "..", n)
resolvePath(n) == <<Dir>> \o n

\* stringToPos(content): the position of the end of the content
RECURSIVE CountOf(_, _)
CountOf(s, tok) ==
    IF s = <<>> THEN 0
    ELSE (IF Head(s) = tok THEN 1 ELSE 0) + CountOf(Tail(s), tok)

RECURSIVE AfterLastLineBreak(_)
AfterLastLineBreak(s) ==
    IF indexOf(s, <<NL>>) < 0 THEN s
    ELSE AfterLastLineBreak(Slice(s, indexOf(s, <<NL>>) + 1))

stringToPos(content) ==
    <<CountOf(content, NL), Len(AfterLastLineBreak(content))>>

Absent == [present |-> FALSE, content |-> <<>>]
Present(c) == [present |-> TRUE, content |-> c]

ReplaceEdit(fn, content, val) ==
    [type |-> "replace", label |-> <<"Update ">> \o fn, filename |-> fn,
     from |-> <<0, 0>>, to |-> stringToPos(content), text |-> val,
     overwrite |-> FALSE]

\* a create-edit that does not allow overwriting
CreateEditNoOverwrite(fn, val) ==
    [type |-> "createfile", label |-> <<"Create ">> \o fn, filename |-> fn,
     from |-> <<0, 0>>, to |-> <<0, 0>>, text |-> val, overwrite |-> FALSE]

CreateEdit(fn, val) ==
    [type |-> "createfile", label |-> <<"Create ">> \o fn, filename |-> fn,
     from |-> <<0, 0>>, to |-> <<0, 0>>, text |-> val, overwrite |-> TRUE]

InsertEdit(title, filename, pos, text) ==
    [type |-> "insert", label |-> <<title>>, filename |-> filename,
     from |-> pos, to |-> pos, text |-> text, overwrite |-> FALSE]

RemoveVar(vs, name) == SelectSeq(vs, LAMBDA b : b.name # name)

LinkLine(n) == <<"-   [">> \o n \o <<"](./">> \o n \o <<")">>

\* edit synthesis that replaces an existing file without comparing
FileBlockAlwaysReplace(st, name, val, fs, frag) ==
    LET n  == BlockFile(name)
        fn == resolvePath(n)
        curr == fn \in frag.references
        st1 == IF fn \in DOMAIN fs
               THEN [st EXCEPT
                       !.fileEdits = (fn :> [before |-> Present(fs[fn]), after |-> val]) @@ @,
                       !.edits = Append(@, ReplaceEdit(fn, fs[fn], val))]
               ELSE [st EXCEPT
                       !.fileEdits = (fn :> [before |-> Absent, after |-> val]) @@ @,
                       !.edits = Append(@, CreateEdit(fn, val))]
    IN  IF ~curr /\ frag.file # fn
        THEN [st1 EXCEPT !.links = Append(@, LinkLine(n))]
        ELSE st1

\* the body of the loop for a block whose name starts with "File ", after
\* the block is deleted from extr.vars
FileBlock(st, name, val, fs, frag) ==
    LET n  == BlockFile(name)
        fn == resolvePath(n)
        curr == fn \in frag.references
        st1 == IF fn \in DOMAIN fs
               THEN IF fs[fn] # val
                    THEN [st EXCEPT
                            !.fileEdits = (fn :> [before |-> Present(fs[fn]), after |-> val]) @@ @,
                            !.edits = Append(@, ReplaceEdit(fn, fs[fn], val))]
                    ELSE st
               ELSE [st EXCEPT
                       !.fileEdits = (fn :> [before |-> Absent, after |-> val]) @@ @,
                       !.edits = Append(@, CreateEdit(fn, val))]
    IN  IF ~curr /\ frag.file # fn
        THEN [st1 EXCEPT !.links = Append(@, LinkLine(n))]
        ELSE st1

\* one iteration of the loop over Object.entries(extr.vars)
EntryStep(st, name, val, fs, frag) ==
    LET st1 == IF Head(name) = FilePrefix
               THEN FileBlock([st EXCEPT !.vars = RemoveVar(@, name)],
                              name, val, fs, frag)
               ELSE st
    IN  IF name = <<"SUMMARY">>
        THEN [st1 EXCEPT !.summary = Present(val), !.vars = RemoveVar(@, name)]
        ELSE st1

\* the code fence that opens the final text: three or more backquotes, an
\* optional word, a line break
WordTokens == {"js", "ts", "markdown"}

RECURSIVE LeadingCount(_, _)
LeadingCount(s, toks) ==
    IF s # <<>> /\ Head(s) \in toks THEN 1 + LeadingCount(Tail(s), toks) ELSE 0

Unfence(t) ==
    LET ticks == LeadingCount(t, {BT})
        words == LeadingCount(Slice(t, ticks), WordTokens)
        open  == ticks + words + 1
        m     == /\ ticks >= 3
                 /\ Len(t) >= open
                 /\ t[open] = NL
        ends  == \A i \in (Len(t) - ticks + 1)..Len(t) : t[i] = BT
    IN  IF m /\ ends THEN Trim(SubSeq(t, open + 1, Len(t) - ticks)) ELSE t

\* the local variable text when runTemplate returns
FinalText(text, vs) ==
    Unfence(Trim(IF Len(vs) = 1 THEN vs[1].val ELSE text))

(***************************************************************************)
(* runTemplate as a state machine.                                         *)
(***************************************************************************)
VARIABLES
    template,       \* the main template
    project,        \* the templates of the project, by identifier
    config,         \* fragment.project.coarchJson
    fragment,       \* file, references, comment attributes, end position
    files,          \* the file system: path -> content of the existing files
    options,        \* infoCb given or not
    transport,      \* the chat completion transport: blocks per completion
    run,            \* number of the current call of runTemplate
    pc,             \* position in runTemplate
    exp,            \* what expandTemplate returned
    trace,          \* the local variable trace
    requests,       \* the completion requests issued
    infoCalls,      \* the calls of options.infoCb
    transportError, \* what the transport threw
    exception,      \* the exception that leaves runTemplate
    completion,     \* what the transport returned, with its named blocks
    text,           \* the local variable text
    extr,           \* extr.vars
    entries,        \* the entries of extr.vars still to be visited
    links,          \* the local variable links
    res             \* the result object

vars == <<template, project, config, fragment, files, options, transport, run,
          pc, exp, trace, requests, infoCalls, transportError, exception,
          completion, text, extr, entries, links, res>>

inputs == <<template, project, config, fragment, files, options, transport>>

NoExpansion ==
    [expanded |-> <<>>, errors |-> <<>>, trace |-> <<>>, success |-> FALSE,
     model |-> UNDEFINED, temperature |-> UNDEFINED, max_tokens |-> UNDEFINED,
     systemText |-> <<>>, thrown |-> ""]

NoResult ==
    [trace |-> <<>>, text |-> <<>>, summary |-> Absent, edits |-> <<>>,
     fileEdits |-> <<>>]

NoCompletion == [text |-> <<>>, vars |-> <<>>]

NoError == [err |-> "", body |-> FALSE, aborted |-> FALSE]

Fragment(references, attrs) ==
    [file |-> FragmentFile, references |-> references, attrs |-> attrs,
     endPos |-> <<1, 0>>]

NoAttrs == [a \in {} |-> <<>>]
PromptAttr == [a \in {"@prompt"} |-> <<"Be brief.", NL>>]

RunStart ==
    /\ run = 1
    /\ pc = "start"
    /\ exp = NoExpansion
    /\ trace = <<>>
    /\ requests = <<>>
    /\ infoCalls = <<>>
    /\ transportError = NoError
    /\ exception = ""
    /\ completion = NoCompletion
    /\ text = <<>>
    /\ extr = <<>>
    /\ entries = <<>>
    /\ links = <<>>
    /\ res = NoResult

\* the template scripts vary; the completion has no named block
InitScripts ==
    /\ template \in {Template(s, <<>>, UNDEFINED, UNDEFINED, UNDEFINED) : s \in Scripts}
    /\ project = Project(<<TextOp(<<Lit("You are concise.")>>, FALSE)>>,
                         <<TextOp(<<Lit("Files.")>>, FALSE)>>)
    /\ config = [model |-> UNDEFINED]
    /\ fragment \in {Fragment({}, a) : a \in {NoAttrs, PromptAttr}}
    /\ files \in {f \in FileSystems : DOMAIN f = {FragmentFile}}
    /\ options \in [infoCb : BOOLEAN]
    /\ transport = [blocks |-> 0]

\* the system templates vary
InitSystems ==
    /\ template \in {Template(s, l, UNDEFINED, UNDEFINED, UNDEFINED) :
                        s \in FewScripts, l \in SystemLists}
    /\ project \in {Project(s, f) : s \in SystemScripts, f \in SystemScripts}
    /\ config = [model |-> UNDEFINED]
    /\ fragment = Fragment({}, NoAttrs)
    /\ files \in {f \in FileSystems : DOMAIN f = {FragmentFile}}
    /\ options = [infoCb |-> TRUE]
    /\ transport = [blocks |-> 0]

\* the completion, the file system and the fragment's references vary
InitCompletions ==
    /\ template = Template(<<TextOp(HelloBody, FALSE)>>, <<>>, UNDEFINED, UNDEFINED, UNDEFINED)
    /\ project = Project(<<TextOp(<<Lit("You are concise.")>>, FALSE)>>,
                         <<TextOp(<<Lit("Files.")>>, FALSE)>>)
    /\ config = [model |-> UNDEFINED]
    /\ fragment \in {Fragment(r, NoAttrs) : r \in SUBSET {PathA}}
    /\ files \in FileSystems
    /\ options = [infoCb |-> TRUE]
    /\ transport = [blocks |-> MaxBlocks]

\* a project whose canonical system template sets its own parameters
ParamProject(model, temperature, maxTokens) ==
    [n \in {"system", "system.files"} |->
        IF n = "system"
        THEN SystemTemplate(n, <<TextOp(<<Lit("You are concise.")>>, FALSE)>>,
                            model, temperature, maxTokens)
        ELSE SystemTemplate(n, <<TextOp(<<Lit("Files.")>>, FALSE)>>,
                            "gpt-3.5", "0", UNDEFINED)]

ParamLists ==
    {<<>>, <<"system.files">>, <<"system.files", "system">>,
     <<"missing", "system.files", "system">>, <<"system.files", "missing">>}

\* the parameters of the templates and of the project configuration vary
InitParams ==
    /\ template \in {Template(<<TextOp(HelloBody, FALSE)>>, l, m, t, k) :
                        l \in ParamLists, m \in {UNDEFINED, "gpt-main"},
                        t \in {UNDEFINED, "0", "0.9"}, k \in {UNDEFINED, "0"}}
    /\ project \in {ParamProject(m, t, k) :
                        m \in {UNDEFINED, "gpt-sys"}, t \in {UNDEFINED, "0.5"},
                        k \in {UNDEFINED, "100"}}
    /\ config \in {[model |-> m] : m \in {UNDEFINED, "gpt-cfg"}}
    /\ fragment = Fragment({}, NoAttrs)
    /\ files \in {f \in FileSystems : DOMAIN f = {FragmentFile}}
    /\ options = [infoCb |-> TRUE]
    /\ transport = [blocks |-> 0]

Init ==
    /\ RunStart
    /\ InitScripts \/ InitSystems \/ InitCompletions \/ InitParams

FinalPromptTrace(e) ==
    <<NL, NL, "## Final prompt", NL, NL>>
    \o (IF e.model \notin {UNDEFINED, ""}
        THEN <<"-  model: ", OrEmpty(e.model), NL>> ELSE <<>>)
    \o (IF e.temperature # UNDEFINED
        THEN <<"-  temperature: ", OrEmpty(e.temperature), NL>> ELSE <<>>)
    \o (IF e.max_tokens # UNDEFINED
        THEN <<"-  max tokens: ", OrEmpty(e.max_tokens), NL>> ELSE <<>>)
    \o fenceMD(e.expanded, "markdown")

TemplateFailedHeader == "# Template failed\nSee info below.\n"

\* the result returned when the expansion failed, with the trace alone as text
FailedResultTraceOnly(t) ==
    [trace |-> t, text |-> t, summary |-> Absent, edits |-> <<>>,
     fileEdits |-> <<>>]

\* the result returned when the expansion failed
FailedResult(t) ==
    [trace |-> t, text |-> <<TemplateFailedHeader>> \o t, summary |-> Absent,
     edits |-> <<>>, fileEdits |-> <<>>]

\* runTemplate up to the try block: the variables, expandTemplate, the final
\* prompt section of the trace, the return of a failed expansion
Expand ==
    /\ pc = "start"
    /\ LET e == expandTemplate(template, fragment.attrs, Vars, project, config)
           t == e.trace \o FinalPromptTrace(e)
       IN  IF e.thrown # ""
           THEN /\ pc' = "thrown"
                /\ exception' = e.thrown
                /\ UNCHANGED <<exp, trace, res>>
           ELSE /\ exp' = e
                /\ trace' = t
                /\ exception' = exception
                /\ IF ~e.success
                   THEN pc' = "done" /\ res' = FailedResult(t)
                   ELSE pc' = "ready" /\ res' = res
    /\ UNCHANGED <<inputs, run, requests, infoCalls, transportError, text, completion,
                   extr, entries, links>>

InfoCall(t, tx) == [edits |-> <<>>, trace |-> t, text |-> tx, fileEdits |-> <<>>]

Request(e) ==
    [model |-> e.model, temperature |-> e.temperature,
     max_tokens |-> e.max_tokens, system |-> e.systemText, user |-> e.expanded]

\* initToken() succeeds: the waiting call of infoCb, then the request
IssueRequest ==
    /\ pc = "ready"
    /\ infoCalls' = IF options.infoCb
                    THEN Append(infoCalls, InfoCall(trace, "> Waiting for response..."))
                    ELSE infoCalls
    /\ requests' = Append(requests, Request(exp))
    /\ pc' = "waiting"
    /\ UNCHANGED <<inputs, run, exp, trace, transportError, exception, text, completion,
                   extr, entries, links, res>>

RequestErrorTrace(body) ==
    <<"## Request error", NL, NL>>
    \o (IF body
        THEN <<NL, "> ", "error.body.message", NL, NL,
               "-  type: ", "error.body.type", NL,
               "-  code: ", "error.body.code", NL>>
        ELSE <<>>)
    \o <<"-   status: ", "error.status", ", ", "error.statusText", NL>>

CancelledTrace ==
    <<"## Request cancelled", NL, NL,
      "The user requested to cancel the request.", NL>>

\* the catch block of runTemplate for an error thrown in the try block
Catch(error) ==
    /\ transportError' = error
    /\ IF error.err = "RequestError"
       THEN /\ trace' = trace \o RequestErrorTrace(error.body)
            /\ IF options.infoCb
               THEN /\ infoCalls' = Append(infoCalls, InfoCall(trace', "Request error"))
                    /\ exception' = error.err
               ELSE /\ infoCalls' = infoCalls
                    /\ exception' = "TypeError"
       ELSE IF error.aborted
       THEN /\ trace' = trace \o CancelledTrace
            /\ IF options.infoCb
               THEN /\ infoCalls' = Append(infoCalls, InfoCall(trace', "Request cancelled"))
                    /\ exception' = error.err
               ELSE /\ infoCalls' = infoCalls
                    /\ exception' = "TypeError"
       ELSE /\ trace' = trace
            /\ infoCalls' = infoCalls
            /\ exception' = error.err
    /\ pc' = "thrown"

TransportErrors ==
    {[err |-> "RequestError", body |-> b, aborted |-> FALSE] : b \in BOOLEAN}
    \cup {[err |-> "AbortError", body |-> FALSE, aborted |-> TRUE],
          [err |-> "Error", body |-> FALSE, aborted |-> FALSE]}

\* initToken() throws
InitTokenFails ==
    /\ pc = "ready"
    /\ Catch([err |-> "TokenError", body |-> FALSE, aborted |-> FALSE])
    /\ UNCHANGED <<inputs, run, exp, requests, text, completion, extr, entries, links, res>>

\* getChatCompletions throws
CompletionFails ==
    /\ pc = "waiting"
    /\ \E error \in TransportErrors : Catch(error)
    /\ UNCHANGED <<inputs, run, exp, requests, text, completion, extr, entries, links, res>>

\* getChatCompletions returns: the trace of the output, extractFenced, res
CompletionReturns ==
    /\ pc = "waiting"
    /\ \E c \in Completions(transport.blocks) :
        /\ completion' = c
        /\ text' = c.text
        /\ trace' = trace \o <<NL, NL, "## AI Output", NL, NL>>
                          \o fenceMD(c.text, "markdown")
                          \o <<NL, NL, "### Extracted Variables", NL, NL>>
                          \o renderFencedVariables(c.vars) \o <<NL>>
        /\ extr' = c.vars
        /\ entries' = c.vars
        /\ res' = [trace |-> trace', text |-> c.text, summary |-> Absent,
                   edits |-> <<>>, fileEdits |-> <<>>]
    /\ links' = <<>>
    /\ pc' = "blocks"
    /\ UNCHANGED <<inputs, run, exp, requests, infoCalls, transportError, exception>>

\* one iteration of the loop over the extracted blocks
ProcessEntry ==
    /\ pc = "blocks"
    /\ entries # <<>>
    /\ LET st == EntryStep([vars |-> extr, edits |-> res.edits,
                            fileEdits |-> res.fileEdits, links |-> links,
                            summary |-> res.summary],
                           Head(entries).name, Head(entries).val, files, fragment)
       IN  /\ extr' = st.vars
           /\ links' = st.links
           /\ res' = [res EXCEPT !.edits = st.edits, !.fileEdits = st.fileEdits,
                                 !.summary = st.summary]
    /\ entries' = Tail(entries)
    /\ UNCHANGED <<inputs, run, pc, exp, trace, requests, infoCalls,
                   transportError, exception, text, completion>>

RECURSIVE JoinLines(_)
JoinLines(ls) ==
    IF ls = <<>> THEN <<>>
    ELSE IF Len(ls) = 1 THEN Head(ls)
    ELSE Head(ls) \o <<NL>> \o JoinLines(Tail(ls))

\* after the loop: the final text, the insert-edit of the links, return res
Finish ==
    /\ pc = "blocks"
    /\ entries = <<>>
    /\ text' = FinalText(text, extr)
    /\ res' = IF links # <<>>
              THEN [res EXCEPT !.edits =
                      Append(@, InsertEdit(template.title, fragment.file,
                                           fragment.endPos,
                                           <<NL, NL>> \o JoinLines(links)))]
              ELSE res
    /\ pc' = "done"
    /\ UNCHANGED <<inputs, run, exp, trace, requests, infoCalls, transportError,
                   exception, completion, extr, entries, links>>

\* the caller runs the template again, against the same inputs
Rerun ==
    /\ pc \in {"done", "thrown"}
    /\ run < MaxRuns
    /\ run' = run + 1
    /\ pc' = "start"
    /\ exp' = NoExpansion
    /\ trace' = <<>>
    /\ requests' = <<>>
    /\ infoCalls' = <<>>
    /\ transportError' = NoError
    /\ exception' = ""
    /\ completion' = NoCompletion
    /\ text' = <<>>
    /\ extr' = <<>>
    /\ entries' = <<>>
    /\ links' = <<>>
    /\ res' = NoResult
    /\ UNCHANGED inputs

Next ==
    \/ Expand
    \/ IssueRequest
    \/ InitTokenFails
    \/ CompletionFails
    \/ CompletionReturns
    \/ ProcessEntry
    \/ Finish
    \/ Rerun

Spec == Init /\ [][Next]_vars

(***************************************************************************)
(* Properties.                                                             *)
(***************************************************************************)
Expanded == exp # NoExpansion

\* the operations of a script that are evaluated: up to the first one that
\* throws
RECURSIVE Evaluated(_, _)
Evaluated(script, n) ==
    IF n >= Len(script) THEN script
    ELSE IF callExpander(SubSeq(script, 1, n + 1), Vars).halted
         THEN SubSeq(script, 1, n + 1)
         ELSE Evaluated(script, n + 1)

RECURSIVE ReadsOf(_)
ReadsOf(body) ==
    IF body = <<>> THEN <<>>
    ELSE (IF Head(body).k = "env" THEN <<Head(body).v>> ELSE <<>>)
         \o ReadsOf(Tail(body))

\* the names read through env by the evaluated operations, in order
RECURSIVE ScriptReads(_)
ScriptReads(script) ==
    IF script = <<>> THEN <<>>
    ELSE ReadsOf(Head(script).body) \o ScriptReads(Tail(script))

UnboundReads(script) ==
    SelectSeq(ScriptReads(Evaluated(script, 0)), LAMBDA n : n \notin DOMAIN Vars)

\* the script with the reads of unbound names taken out
WithoutUnbound(script) ==
    [i \in 1..Len(script) |->
        [script[i] EXCEPT !.body =
            SelectSeq(@, LAMBDA x : ~(x.k = "env" /\ x.v \notin DOMAIN Vars))]]

PromptText(e) == Slice(e.expanded, Len(categoryPrefix(template, fragment.attrs).text) + 1)

\* C1 as stated: whenever the expansion of the main template ends with
\* success=false, no completion request is issued and the result returned
\* has no edits, no fileEdits, and the trace itself as its text.
C1_TextIsTrace ==
    (Expanded /\ ~exp.success) =>
        /\ requests = <<>>
        /\ pc = "done"
        /\ res.edits = <<>>
        /\ res.fileEdits = <<>>
        /\ res.text = res.trace

\* the expansion of the main template ends with success=false
MainFailed ==
    LET r == callExpander(template.jsSource, Vars)
    IN  r.thrown = "" /\ ~r.success

\* C1 amended: whenever the expansion of the main template ends with
\* success=false, no completion request is issued (and infoCb is not
\* called); the run ends at once, and the result it returns has no edits,
\* no fileEdits, the trace of the run as its trace, and as its text the
\* heading "# Template failed / See info below." followed by the trace.
\* The only other way the run ends is the exception that escapes the
\* expansion of a system template.
C1_FailedExpansion ==
    (pc # "start" /\ MainFailed) =>
        /\ requests = <<>>
        /\ infoCalls = <<>>
        /\ pc \in {"done", "thrown"}
        /\ pc = "done" =>
            /\ Expanded
            /\ ~exp.success
            /\ res.edits = <<>>
            /\ res.fileEdits = <<>>
            /\ res.trace = trace
            /\ res.text = <<TemplateFailedHeader>> \o trace
            /\ trace # <<>>
        /\ pc = "thrown" => (~Expanded /\ exception = "TypeError")

C1_Witness ==
    /\ pc = "done"
    /\ Expanded
    /\ ~exp.success
    /\ includes(exp.errors, <<"Error", ": ", "boom">>)
    /\ Head(res.text) = TemplateFailedHeader

\* C2: when the completion call fails with a RequestError, with a
\* cancellation or with any other exception, infoCb is called with the trace
\* accumulated so far once the failure is caught, and the exception that
\* leaves runTemplate is the one the transport threw.
C2_CallbackThenRethrow ==
    (pc = "thrown" /\ transportError.err \in {"RequestError", "AbortError", "Error"}) =>
        /\ exception = transportError.err
        /\ infoCalls # <<>>
        /\ Last(infoCalls).trace = trace
        /\ Last(infoCalls).text \in {"Request error", "Request cancelled"}

\* C3: a read of an unbound env.<name> yields the empty string and one
\* "not defined" line, and changes nothing else: text, logs and success of
\* the expansion are those of the script without these reads, and a
\* successful expansion goes on to the completion request.
C3_UnboundReadContinues ==
    Expanded =>
        LET script == template.jsSource
            plain  == callExpander(WithoutUnbound(script), Vars)
            reads  == UnboundReads(script)
        IN  /\ PromptText(exp) = plain.text
            /\ exp.success = plain.success
            /\ CountOf(exp.errors, "' not defined") = Len(reads)
            /\ \A i \in 1..Len(reads) :
                 includes(exp.errors, <<"-  'env.", reads[i], "' not defined", NL>>)
            /\ exp.success => (pc # "done" \/ Len(requests) = 1)
            /\ (exp.success /\ pc \notin {"ready", "thrown"}) => Len(requests) = 1

C3_Witness ==
    /\ pc = "waiting"
    /\ Len(requests) = 1
    /\ exp.success
    /\ UnboundReads(template.jsSource) # <<>>
    /\ includes(exp.errors, <<"-  'env.", "foo", "' not defined", NL>>)
    /\ includes(exp.expanded, <<"x", "y", NL, NL>>)

\* the first evaluated operation of the main script that emits the marker
MarkerFired ==
    LET ev == Evaluated(template.jsSource, 0)
    IN  /\ ev # <<>>
        /\ Last(ev).op = "text"
        /\ Last(ev).body = MarkerBody

SegmentsBeforeMarker ==
    LET ev == Evaluated(template.jsSource, 0)
    IN  callExpander(SubSeq(ev, 1, Len(ev) - 1), Vars).text

MarkerSegment == <<"pre">> \o ErrorMarker \o <<"boom", NL, "rest", NL, NL>>

\* C4 as stated: when an emitted segment contains the error marker, the
\* expansion fails at once, the errors hold the text between the marker and
\* the next line break, and the output emitted before the marker is
\* discarded from the expansion result.
C4_OutputDiscarded ==
    (Expanded /\ MarkerFired) =>
        /\ ~exp.success
        /\ includes(exp.errors, <<"-  ", "Error", ": ", "boom">>)
        /\ ~includes(exp.errors, <<"rest">>)
        /\ ~includes(exp.expanded, <<"pre">>)
        /\ ~includes(exp.expanded, SegmentsBeforeMarker)

\* C4 amended: when an emitted segment contains the error marker, the
\* expansion fails at once (nothing after the segment is evaluated), the
\* errors hold the text between the marker and the next line break, and the
\* text of the expansion result keeps everything emitted so far: the
\* segments before, then the whole segment that holds the marker.
C4_MarkerFails ==
    (Expanded /\ MarkerFired) =>
        /\ ~exp.success
        /\ pc = "done"
        /\ includes(exp.errors, <<"-  ", "Error", ": ", "boom">>)
        /\ ~includes(exp.errors, <<"rest">>)
        /\ Last(exp.errors) = NL
        /\ PromptText(exp) = SegmentsBeforeMarker \o MarkerSegment
        /\ includes(res.trace, trimNewlines(MarkerSegment))

C4_Witness ==
    /\ Expanded
    /\ MarkerFired
    /\ Len(template.jsSource) = 2
    /\ template.jsSource[1] = TextOp(HelloBody, FALSE)
    /\ template.jsSource[2].op = "text"
    /\ ~exp.success
    /\ pc = "done"

ScriptThrows(script) ==
    LET ev == Evaluated(script, 0)
    IN  ev # <<>> /\ Last(ev).op = "throw"

\* C5: whatever value the script throws (an Error, a string, null),
\* callExpander returns a result with success=false and an error line for
\* the exception: no exception leaves the expansion.
C5_ThrowIsCaught ==
    (pc # "start" /\ ScriptThrows(template.jsSource)) =>
        /\ pc # "thrown"
        /\ exception = ""
        /\ Expanded
        /\ ~exp.success
        /\ includes(exp.errors, <<"-  ">>)

\* the error lines recorded by the expansions of the system templates
SystemErrors ==
    LET systems == SystemsOf(template)
    IN  {callExpander(project[systems[i]].jsSource, Vars).errors :
            i \in {j \in 1..Len(systems) : systems[j] \in DOMAIN project}}

\* C6: every error recorded by an expansion of the run, of the main
\* template or of a system template, is in the trace of the result.
C6_ErrorsInTrace ==
    (pc = "done") =>
        /\ includes(res.trace, exp.errors)
        /\ \A errs \in SystemErrors : includes(res.trace, errs)


IsFileBlock(b) == Head(b.name) = FilePrefix

\* the named blocks left once the file blocks and SUMMARY are taken out
Leftover ==
    SelectSeq(completion.vars,
              LAMBDA b : ~IsFileBlock(b) /\ b.name # <<"SUMMARY">>)

Returned == pc = "done" /\ exp.success

\* C7: when exactly one named block is left after the file blocks and
\* SUMMARY are removed, the text of the result is the text of that block
\* (as it is, or with its code fence unwrapped), not the raw completion.
C7_SingleLeftoverIsText ==
    (Returned /\ Len(Leftover) = 1) =>
        res.text \in {Leftover[1].val, Trim(Leftover[1].val),
                      <<"console.log(1)">>}

\* the final text before the fence is looked for
Selected == Trim(IF Len(Leftover) = 1 THEN Leftover[1].val ELSE completion.text)

\* C8: a final text wholly wrapped in one code fence is returned without
\* the fence, also when zero or several named blocks are left.
C8_FenceUnwrapped ==
    (Returned /\ Selected = FencedJs) => res.text = <<"console.log(1)">>

\* the absolute path a block name stands for
TargetOf(name) ==
    IF name \in {<<FilePrefix, "a.txt">>, <<FilePrefix, "./", "a.txt">>}
    THEN PathA ELSE PathB

BlocksFor(fn) ==
    SelectSeq(completion.vars, LAMBDA b : IsFileBlock(b) /\ TargetOf(b.name) = fn)

EditsFor(fn, type) ==
    SelectSeq(res.edits, LAMBDA e : e.filename = fn /\ e.type = type)

\* the step in which the loop visits a file block whose target is missing
C9_Step ==
    (/\ pc = "blocks"
     /\ entries # <<>>
     /\ IsFileBlock(Head(entries))
     /\ TargetOf(Head(entries).name) \notin DOMAIN files) =>
        LET fn  == TargetOf(Head(entries).name)
            val == Head(entries).val
        IN  /\ Len(res'.edits) = Len(res.edits) + 1
            /\ SubSeq(res'.edits, 1, Len(res.edits)) = res.edits
            /\ Last(res'.edits).type = "createfile"
            /\ Last(res'.edits).filename = fn
            /\ Last(res'.edits).text = val
            /\ Last(res'.edits).overwrite
            /\ fn \in DOMAIN res'.fileEdits
            /\ res'.fileEdits[fn] = [before |-> Absent, after |-> val]
            /\ \A i \in 1..Len(extr') : extr'[i].name # Head(entries).name

C9_Result ==
    Returned =>
        \A fn \in {PathA, PathB} \ DOMAIN files :
            /\ Len(EditsFor(fn, "createfile")) = Len(BlocksFor(fn))
            /\ \A i \in 1..Len(BlocksFor(fn)) :
                 /\ EditsFor(fn, "createfile")[i].text = BlocksFor(fn)[i].val
                 /\ EditsFor(fn, "createfile")[i].overwrite
            /\ EditsFor(fn, "replace") = <<>>
            /\ \A i \in 1..Len(extr) : ~IsFileBlock(extr[i])

\* C9: a block "File ./a.txt" (or any file block) with body B whose target
\* does not exist produces exactly one create-edit for the resolved path,
\* with text B and the overwrite flag, and a fileEdits entry with an absent
\* before and after = B; no block of that name stays in the extracted
\* variables.  In the result every such block has its create-edit.
C9_NewFileCreated == [][C9_Step]_vars /\ []C9_Result

C9_Witness ==
    /\ Returned
    /\ PathA \notin DOMAIN files
    /\ Len(completion.vars) = 1
    /\ completion.vars[1] = [name |-> <<FilePrefix, "./", "a.txt">>, val |-> FencedJs]
    /\ Len(res.edits) = 2
    /\ res.edits[1].type = "createfile"
    /\ res.edits[1].filename = PathA
    /\ res.edits[1].text = FencedJs
    /\ res.fileEdits[PathA] = [before |-> Absent, after |-> FencedJs]
    /\ extr = <<>>

\* the step in which the loop visits a file block whose target exists with
\* the content of the block
C10_Step ==
    (/\ pc = "blocks"
     /\ entries # <<>>
     /\ IsFileBlock(Head(entries))
     /\ TargetOf(Head(entries).name) \in DOMAIN files
     /\ files[TargetOf(Head(entries).name)] = Head(entries).val) =>
        /\ res'.edits = res.edits
        /\ res'.fileEdits = res.fileEdits

C10_Result ==
    Returned =>
        \A fn \in {PathA, PathB} \cap DOMAIN files :
            (/\ BlocksFor(fn) # <<>>
             /\ \A i \in 1..Len(BlocksFor(fn)) : BlocksFor(fn)[i].val = files[fn]) =>
                /\ EditsFor(fn, "replace") = <<>>
                /\ EditsFor(fn, "createfile") = <<>>
                /\ fn \notin DOMAIN res.fileEdits

\* C10: a file block whose target exists with a content equal to the text
\* of the block produces no edit and no fileEdits entry, in the first run
\* and in every later run against the same file content.
C10_IdenticalContentNoEdit == [][C10_Step]_vars /\ []C10_Result

C10_Witness ==
    /\ Returned
    /\ run = 2
    /\ PathA \in DOMAIN files
    /\ Len(completion.vars) = 1
    /\ completion.vars[1] = [name |-> <<FilePrefix, "a.txt">>, val |-> files[PathA]]
    /\ EditsFor(PathA, "replace") = <<>>
    /\ res.fileEdits = <<>>


Found(name) == name \in DOMAIN project

\* the declared system templates that exist, in declared order, the
\* canonical entry first when the list does not name it
DeclaredOrder == SelectSeq(SystemsOf(template), Found)

\* the system templates in the order expandTemplate expands them: a name
\* that is not found is passed over, except at the first position, where
\* the canonical template is expanded in its place
ExpansionOrder ==
    LET systems == SystemsOf(template)
        At(i) == IF Found(systems[i]) THEN <<systems[i]>>
                 ELSE IF i = 1 THEN <<"system">> ELSE <<>>
        F[i \in 0..Len(systems)] == IF i = 0 THEN <<>> ELSE F[i - 1] \o At(i)
    IN  F[Len(systems)]

RECURSIVE FirstDefined(_)
FirstDefined(values) ==
    IF values = <<>> THEN UNDEFINED
    ELSE IF Head(values) # UNDEFINED THEN Head(values)
    ELSE FirstDefined(Tail(values))

ValuesOf(names, field) == [i \in 1..Len(names) |-> project[names[i]][field]]

Precedence(main, names, field, default) ==
    IF main # UNDEFINED THEN main
    ELSE IF FirstDefined(ValuesOf(names, field)) # UNDEFINED
         THEN FirstDefined(ValuesOf(names, field))
         ELSE default

\* C11 as stated: model, temperature and max tokens are the value of the
\* main template if it has one (0 included), else the first defined value
\* of the resolved system templates in declared order, else the global
\* default; with no model on any template the model is "gpt-4".
C11_DefaultIsBaseline ==
    Expanded =>
        /\ exp.model = Precedence(template.model, DeclaredOrder, "model", "gpt-4")
        /\ exp.temperature =
             Precedence(template.temperature, DeclaredOrder, "temperature", "0.2")
        /\ exp.max_tokens =
             Precedence(template.maxTokens, DeclaredOrder, "maxTokens", "800")

\* C11 amended: model, temperature and max tokens are the value of the main
\* template if it has one (0 included), else the first defined value of the
\* system templates in the order they are expanded, else the default (0.2,
\* 800); for the model the model of the project configuration comes before
\* the default "gpt-4".  The completion request carries these values.
C11_ParameterPrecedence ==
    Expanded =>
        /\ exp.model =
             Precedence(template.model, ExpansionOrder, "model",
                        IF config.model # UNDEFINED THEN config.model ELSE "gpt-4")
        /\ exp.temperature =
             Precedence(template.temperature, ExpansionOrder, "temperature", "0.2")
        /\ exp.max_tokens =
             Precedence(template.maxTokens, ExpansionOrder, "maxTokens", "800")
        /\ \A i \in 1..Len(requests) :
             /\ requests[i].model = exp.model
             /\ requests[i].temperature = exp.temperature
             /\ requests[i].max_tokens = exp.max_tokens

C11_Witness ==
    /\ pc = "waiting"
    /\ template.model = UNDEFINED
    /\ template.temperature = "0"
    /\ template.maxTokens = UNDEFINED
    /\ template.system = <<"system.files", "system">>
    /\ project["system"].model = "gpt-sys"
    /\ project["system"].maxTokens = "100"
    /\ config.model = "gpt-cfg"
    /\ requests[1].model = "gpt-3.5"
    /\ requests[1].temperature = "0"
    /\ requests[1].max_tokens = "100"


Skippable(name) == ~Found(name) /\ name # "system"

Kept(name) == ~Skippable(name)

\* the expansion of the template whose system list does not declare the
\* names that are missing from the project
WithoutMissing ==
    expandTemplate([template EXCEPT !.system = SelectSeq(template.system, Kept)],
                   fragment.attrs, Vars, project, config)

NotFoundLine(name) == <<NL, "** error: ", name, " not found", NL>>

\* C12: a declared system name that is not in the project and is not
\* "system" is skipped wherever it stands in the list: the trace has a
\* not-found error for it, and the system prompt, model, temperature and max
\* tokens are those of the template without that name, so no system
\* template gives its text twice.
C12_MissingNameSkipped ==
    Expanded =>
        /\ \A i \in 1..Len(template.system) :
             Skippable(template.system[i]) =>
                includes(exp.trace, NotFoundLine(template.system[i]))
        /\ exp.systemText = WithoutMissing.systemText
        /\ exp.model = WithoutMissing.model
        /\ exp.temperature = WithoutMissing.temperature
        /\ exp.max_tokens = WithoutMissing.max_tokens


Inserts == SelectSeq(res.edits, LAMBDA e : e.type = "insert")

\* a file block that creates its target or changes its content
Changing(b) ==
    /\ IsFileBlock(b)
    /\ TargetOf(b.name) \in DOMAIN files => files[TargetOf(b.name)] # b.val

\* the files created or changed by a block and not referenced by the fragment
NewlyWritten ==
    {fn \in {PathA, PathB} :
        /\ fn \notin fragment.references
        /\ \E i \in 1..Len(completion.vars) :
              Changing(completion.vars[i]) /\ TargetOf(completion.vars[i].name) = fn}

\* C13: the returned edits have an insert-edit (at the end position of the
\* fragment, holding Markdown links) exactly when some file block created a
\* file, or changed the content of one, that the fragment did not reference;
\* the links name exactly those files, there is at most one insert-edit, and
\* it comes after every replace and create edit.
C13_LinksForNewFiles ==
    Returned =>
        /\ Inserts # <<>> <=> NewlyWritten # {}
        /\ Len(Inserts) <= 1
        /\ Inserts # <<>> =>
             /\ Last(res.edits).type = "insert"
             /\ Inserts[1].from = fragment.endPos
             /\ \A fn \in {PathA, PathB} :
                  includes(Inserts[1].text, <<"](./", Last(fn), ")">>)
                     <=> fn \in NewlyWritten


FileEditsOf(fn) ==
    SelectSeq(res.edits,
              LAMBDA e : e.filename = fn /\ e.type \in {"replace", "createfile"})

\* C14: in every result the fileEdits map and the edits list agree, also
\* when two block names resolve to one path: each key of fileEdits has
\* exactly one replace or create edit with that filename, each replace or
\* create edit has a fileEdits entry, and the text of the edit is the after
\* value of the entry.
C14_FileEditsAgree ==
    Returned =>
        /\ \A fn \in DOMAIN res.fileEdits : Len(FileEditsOf(fn)) = 1
        /\ \A i \in 1..Len(res.edits) :
             res.edits[i].type \in {"replace", "createfile"} =>
                /\ res.edits[i].filename \in DOMAIN res.fileEdits
                /\ res.edits[i].text = res.fileEdits[res.edits[i].filename].after

====
